---- MODULE Spec2Model ----
(***************************************************************************)
(* Model of the on-demand directory-listing generator                      *)
(* hacks/s3_art-srv-enterprise/lambda_art-srv-enterprise-s3-get-index-     *)
(* html-gen.py: lambda_handler, process_dir, s3_list_dir, S3Path and       *)
(* pretty_size.                                                            *)
(*                                                                         *)
(* Text is a sequence of tokens.  A token is a one-character string, or    *)
(* the token Run, which stands for RunLen consecutive characters "a"       *)
(* (a long file name is needed to reach the 1,000,000 character cap with   *)
(* a handful of entries).  Run never stands next to an "a" or another Run, *)
(* so equal texts have equal token sequences.  The token RunE stands for   *)
(* RunELen consecutive characters U+00E9 (two bytes each in UTF-8) and     *)
(* RunEQuoted for their percent escapes.                                   *)
(***************************************************************************)
EXTENDS Integers, Sequences, FiniteSets, TLC

(* ------------------------------ bounds --------------------------------- *)
MaxEntries == 3     \* records of one listing over all its pages, at most
MaxPageSize == 2    \* records the store returns in one page, at most
MaxUriAtoms == 3    \* pieces a request uri is put together from, at most
MaxArches == 2      \* arches a group config lists under one key, at most

(* ------------------------------- text ---------------------------------- *)
Run == "a{500000}"
RunLen == 500 * 1000

RunE == "U+00E9{130000}"
RunELen == 130 * 1000

\* urllib.parse.quote of RunE: "%C3%A9" for each of its characters
RunEQuoted == "%C3%A9{130000}"

\* len(t): the characters of a token
TokLen(t) ==
    IF t = Run THEN RunLen
    ELSE IF t = RunE THEN RunELen
    ELSE IF t = RunEQuoted THEN 6 * RunELen
    ELSE 1

\* len(t.encode()): the bytes of a token in UTF-8
ByteLen(t) == IF t = RunE THEN 2 * RunELen ELSE TokLen(t)

RECURSIVE ByteSize(_)
ByteSize(s) == IF s = <<>> THEN 0 ELSE ByteLen(Head(s)) + ByteSize(Tail(s))

RECURSIVE StrLen(_)
StrLen(s) == IF s = <<>> THEN 0 ELSE TokLen(Head(s)) + StrLen(Tail(s))

Last(s) == s[Len(s)]
Front(s) == SubSeq(s, 1, Len(s) - 1)

\* sub occurs in s at position i
OccursAt(s, sub, i) ==
    /\ i >= 1
    /\ i + Len(sub) - 1 <= Len(s)
    /\ SubSeq(s, i, i + Len(sub) - 1) = sub

\* Python: sub in s
Contains(s, sub) == \E i \in 1..(Len(s) + 1) : OccursAt(s, sub, i)

\* Python: s.endswith(sub)
EndsWith(s, sub) == OccursAt(s, sub, Len(s) - Len(sub) + 1)

\* Python: s.lstrip(c), s.rstrip(c) for a one-character c
RECURSIVE LStrip(_, _)
LStrip(s, c) == IF s # <<>> /\ Head(s) = c THEN LStrip(Tail(s), c) ELSE s

RECURSIVE RStrip(_, _)
RStrip(s, c) == IF s # <<>> /\ Last(s) = c THEN RStrip(Front(s), c) ELSE s

\* Python: s.rsplit(c, 1)[0]
RSplitFirst(s, c) ==
    IF \E i \in 1..Len(s) : s[i] = c
    THEN LET i == CHOOSE j \in 1..Len(s) :
                      /\ s[j] = c
                      /\ \A k \in (j + 1)..Len(s) : s[k] # c
         IN SubSeq(s, 1, i - 1)
    ELSE s

\* Python: s.split(c)
RECURSIVE Split(_, _)
Split(s, c) ==
    IF \E i \in 1..Len(s) : s[i] = c
    THEN LET i == CHOOSE j \in 1..Len(s) :
                      /\ s[j] = c
                      /\ \A k \in 1..(j - 1) : s[k] # c
         IN <<SubSeq(s, 1, i - 1)>> \o Split(SubSeq(s, i + 1, Len(s)), c)
    ELSE <<s>>

\* Python: c.join(parts)
RECURSIVE Join(_, _)
Join(parts, c) ==
    IF parts = <<>> THEN <<>>
    ELSE IF Len(parts) = 1 THEN parts[1]
    ELSE parts[1] \o <<c>> \o Join(Tail(parts), c)

RECURSIVE SelectParts(_)
SelectParts(parts) ==
    IF parts = <<>> THEN <<>>
    ELSE IF Head(parts) = <<>> \/ Head(parts) = <<".">>
         THEN SelectParts(Tail(parts))
         ELSE <<Head(parts)>> \o SelectParts(Tail(parts))

UpperChars == <<"I", "N", "D", "E", "X", "H", "T", "M", "L", "F">>
LowerChars == <<"i", "n", "d", "e", "x", "h", "t", "m", "l", "f">>

\* Python: str.lower(), one character
LowerChar(c) ==
    IF \E i \in 1..Len(UpperChars) : UpperChars[i] = c
    THEN LowerChars[CHOOSE i \in 1..Len(UpperChars) : UpperChars[i] = c]
    ELSE c

Lower(s) == [i \in 1..Len(s) |-> LowerChar(s[i])]

Digits == <<"0", "1", "2", "3", "4", "5", "6", "7", "8", "9">>

\* Python: str(n) of an integer
RECURSIVE StrNat(_)
StrNat(n) == IF n < 10 THEN <<Digits[n + 1]>>
             ELSE StrNat(n \div 10) \o <<Digits[(n % 10) + 1]>>

StrInt(n) == IF n < 0 THEN <<"-">> \o StrNat(0 - n) ELSE StrNat(n)

IsDigit(c) == \E i \in 1..10 : Digits[i] = c
DigitVal(c) == (CHOOSE i \in 1..10 : Digits[i] = c) - 1

RECURSIVE NatVal(_)
NatVal(s) == IF s = <<>> THEN 0 ELSE 10 * NatVal(Front(s)) + DigitVal(Last(s))

AllDigits(s) == s # <<>> /\ \A i \in 1..Len(s) : IsDigit(s[i])

\* Python: int(s) succeeds (texts of an optional sign and decimal digits)
IntOk(s) == IF s # <<>> /\ Head(s) \in {"-", "+"} THEN AllDigits(Tail(s))
            ELSE AllDigits(s)

\* Python: int(s)
IntVal(s) == IF Head(s) = "-" THEN 0 - NatVal(Tail(s))
             ELSE IF Head(s) = "+" THEN NatVal(Tail(s))
             ELSE NatVal(s)

(* --------------------------- byte counts ------------------------------- *)
\* A byte count is a Python int beyond the width of the numbers here: it is
\* kept as its six digits to the base 1024, the lowest first, which holds
\* the counts below 1024 ** 6.
Base == 1024
Places == 6

RECURSIVE ShiftDown(_, _)
ShiftDown(n, places) ==
    IF places = 0 THEN n ELSE ShiftDown(n \div Base, places - 1)

\* the byte count of a small number
Wide(n) == <<n % Base, ShiftDown(n, 1) % Base, ShiftDown(n, 2) % Base,
             ShiftDown(n, 3) % Base, 0, 0>>

\* the count divided by 10 and the remainder: the long division, from the
\* highest digit down
DivMod10(w) ==
    LET c6 == w[6]
        c5 == (c6 % 10) * Base + w[5]
        c4 == (c5 % 10) * Base + w[4]
        c3 == (c4 % 10) * Base + w[3]
        c2 == (c3 % 10) * Base + w[2]
        c1 == (c2 % 10) * Base + w[1]
    IN [quot |-> <<c1 \div 10, c2 \div 10, c3 \div 10, c4 \div 10,
                   c5 \div 10, c6 \div 10>>,
        rem |-> c1 % 10]

IsSmall(w) == w[1] < 10 /\ \A i \in 2..Places : w[i] = 0

\* Python: str(n) of a byte count
RECURSIVE StrWide(_)
StrWide(w) == IF IsSmall(w) THEN <<Digits[w[1] + 1]>>
              ELSE LET qr == DivMod10(w)
                   IN StrWide(qr.quot) \o <<Digits[qr.rem + 1]>>

(* --------------------------- urllib.parse ------------------------------ *)
HexChars == <<"0", "1", "2", "3", "4", "5", "6", "7", "8", "9",
              "A", "B", "C", "D", "E", "F", "a", "b", "c", "d", "e", "f">>
IsHex(c) == \E i \in 1..Len(HexChars) : HexChars[i] = c
HexVal(c) == LET i == CHOOSE j \in 1..Len(HexChars) : HexChars[j] = c
             IN IF i <= 16 THEN i - 1 ELSE i - 7

\* the characters of the model's alphabet that have a percent escape here
CodeChars == <<[code |-> 32, char |-> " "], [code |-> 37, char |-> "%"],
               [code |-> 43, char |-> "+"], [code |-> 46, char |-> "."],
               [code |-> 47, char |-> "/"], [code |-> 50, char |-> "2"]>>

HasChr(n) == \E i \in 1..Len(CodeChars) : CodeChars[i].code = n
Chr(n) == CodeChars[CHOOSE i \in 1..Len(CodeChars) : CodeChars[i].code = n].char
HasOrd(c) == \E i \in 1..Len(CodeChars) : CodeChars[i].char = c
Ord(c) == CodeChars[CHOOSE i \in 1..Len(CodeChars) : CodeChars[i].char = c].code

\* urllib.parse.unquote: %XX becomes the character XX, anything else stays
RECURSIVE unquote(_)
unquote(s) ==
    IF s = <<>> THEN <<>>
    ELSE IF /\ Head(s) = "%"
            /\ Len(s) >= 3
            /\ IsHex(s[2])
            /\ IsHex(s[3])
            /\ HasChr(16 * HexVal(s[2]) + HexVal(s[3]))
         THEN <<Chr(16 * HexVal(s[2]) + HexVal(s[3]))>>
                  \o unquote(SubSeq(s, 4, Len(s)))
         ELSE <<Head(s)>> \o unquote(Tail(s))

\* urllib.parse.quote with safe='/': these characters are escaped
Unsafe == {" ", "%", "+"}

RECURSIVE quote(_)
quote(s) ==
    IF s = <<>> THEN <<>>
    ELSE (IF Head(s) \in Unsafe
          THEN <<"%", HexChars[(Ord(Head(s)) \div 16) + 1],
                 HexChars[(Ord(Head(s)) % 16) + 1]>>
          ELSE IF Head(s) = RunE THEN <<RunEQuoted>>
          ELSE <<Head(s)>>) \o quote(Tail(s))

\* urllib.parse.parse_qs restricted to the field it is asked for: the
\* values of `key`, in order; pairs without "=" or with a blank value are
\* dropped; "+" is a space and values are percent-decoded
PlusToSpace(s) == [i \in 1..Len(s) |-> IF s[i] = "+" THEN " " ELSE s[i]]

RECURSIVE QsValues(_, _)
QsValues(pairs, key) ==
    IF pairs = <<>> THEN <<>>
    ELSE LET p == Head(pairs)
             nv == Split(p, "=")
             name == unquote(PlusToSpace(nv[1]))
             value == unquote(PlusToSpace(Join(Tail(nv), "=")))
         IN (IF Len(nv) >= 2 /\ value # <<>> /\ name = key
             THEN <<value>> ELSE <<>>) \o QsValues(Tail(pairs), key)

parse_qs(query_string, key) == QsValues(Split(query_string, "&"), key)

(* ------------------------------ pathlib -------------------------------- *)
\* pathlib.PurePosixPath: the parts of a path without its root
PathParts(s) == SelectParts(Split(s, "/"))

\* the root: "//" for exactly two leading slashes, "/" for one or 3+
PathRoot(s) ==
    LET n == Len(s) - Len(LStrip(s, "/"))
    IN IF n = 0 THEN <<>> ELSE IF n = 2 THEN <<"/", "/">> ELSE <<"/">>

\* str(Path(s))
PathStr(s) ==
    LET t == PathRoot(s) \o Join(PathParts(s), "/")
    IN IF t = <<>> THEN <<".">> ELSE t

\* Path(s).name
PathName(s) ==
    LET parts == PathParts(s)
    IN IF parts = <<>> THEN <<>> ELSE Last(parts)

(* ------------------------- program constants --------------------------- *)
DEFAULT_OUTPUT_FILE == <<"i", "n", "d", "e", "x", ".", "h", "t", "m", "l">>

\* the factors are 1024 ** power; the table keeps the power
UNITS_MAPPING ==
    << [power |-> 5, suffix |-> << <<" ", "P", "B">> >>],
       [power |-> 4, suffix |-> << <<" ", "T", "B">> >>],
       [power |-> 3, suffix |-> << <<" ", "G", "B">> >>],
       [power |-> 2, suffix |-> << <<" ", "M", "B">> >>],
       [power |-> 1, suffix |-> << <<" ", "K", "B">> >>],
       [power |-> 0, suffix |-> << <<" ", "b", "y", "t", "e">>,
                                   <<" ", "b", "y", "t", "e", "s">> >>] >>

\* index_file.tell() above which the listing is truncated
TruncateAt == 1000000

\* characters of one row of the listing without its seven substitutions
RowFixedLen == 454

BucketName == "art-srv-enterprise"

(* ------------------------- values of the store ------------------------- *)
\* a field of a listing record: absent, None, or a value
Absent == [kind |-> "absent", val |-> 0]
None == [kind |-> "None", val |-> 0]
SizeOf(w) == [kind |-> "int", val |-> w]
IntOf(n) == SizeOf(Wide(n))
\* datetime.datetime(2021, 6, 23, 23, 29, 59, tzinfo=tzutc()), the
\* LastModified of the example record in the source
DateTime1 == [kind |-> "datetime", val |-> 1]

\* dict.get(key, default)
Get(field, default) == IF field = Absent THEN default ELSE field

\* datetime.replace(microsecond=0).isoformat()
isoformat(t) ==
    <<"2", "0", "2", "1", "-", "0", "6", "-", "2", "3", "T",
      "2", "3", ":", "2", "9", ":", "5", "9", "+", "0", "0", ":", "0", "0">>

\* datetime.strftime("%c")
strftime(t) ==
    <<"W", "e", "d", " ", "J", "u", "n", " ", "2", "3", " ",
      "2", "3", ":", "2", "9", ":", "5", "9", " ", "2", "0", "2", "1">>

(* ------------------------------ S3Path --------------------------------- *)
\* S3Path.__init__ with None as the default of a missing Size
S3Path_sizeNone(is_dir, s3_entry) ==
    LET absolute == IF is_dir THEN LStrip(s3_entry.Prefix, "/")
                    ELSE s3_entry.Key
    IN [is_dir |-> is_dir,
        last_modified |-> Get(s3_entry.LastModified, None),
        size |-> Get(s3_entry.Size, None),
        absolute |-> absolute,
        name |-> PathName(absolute)]

\* S3Path.__init__: the entry of a CommonPrefixes record (is_dir) or of a
\* Contents record
S3Path(is_dir, s3_entry) ==
    LET absolute == IF is_dir THEN LStrip(s3_entry.Prefix, "/")
                    ELSE s3_entry.Key
    IN [is_dir |-> is_dir,
        last_modified |-> Get(s3_entry.LastModified, None),
        size |-> Get(s3_entry.Size, IntOf(0)),
        absolute |-> absolute,
        name |-> PathName(absolute)]

(* ---------------------------- pretty_size ------------------------------ *)
\* line 101: bytes >= 1024 ** power, a comparison of integers
AtLeastPow1024(bytes, power) == \E i \in (power + 1)..Places : bytes[i] # 0

\* the whole part of bytes over 1024 ** power
RECURSIVE WholePart(_, _)
WholePart(bytes, place) ==
    IF place > Places THEN 0
    ELSE bytes[place] + Base * WholePart(bytes, place + 1)

RECURSIVE BitLength(_)
BitLength(n) == IF n = 0 THEN 0 ELSE 1 + BitLength(n \div 2)

RECURSIVE Pow2(_)
Pow2(n) == IF n = 0 THEN 1 ELSE 2 * Pow2(n - 1)

\* bytes / factor is a float, the quotient rounded to the 53 bits of a
\* double, ties to even: with d bits of the count beyond the 53, the
\* rounding reaches the next whole number when the part below the factor
\* is within 2 ** (d - 1) of the factor
RoundsUp(bytes, power) ==
    LET d == 10 * power + BitLength(WholePart(bytes, power + 1)) - 53
    IN /\ d >= 1
       /\ \A i \in 2..power : bytes[i] = Base - 1
       /\ bytes[1] >= Base - Pow2(d - 1)

\* line 103: int(bytes / 1024 ** power), for a count below 1024 ** (power + 2)
DivPow1024(bytes, power) ==
    WholePart(bytes, power + 1) + (IF RoundsUp(bytes, power) THEN 1 ELSE 0)

\* the unit the loop of pretty_size stops at: the first one with
\* bytes >= factor, the last one when there is none
RECURSIVE PickUnit(_, _)
PickUnit(bytes, units) ==
    IF Len(units) = 1 \/ AtLeastPow1024(bytes, Head(units).power)
    THEN Head(units)
    ELSE PickUnit(bytes, Tail(units))

pretty_size(bytes) ==
    LET unit == PickUnit(bytes, UNITS_MAPPING)
        amount == DivPow1024(bytes, unit.power)
        suffix == IF Len(unit.suffix) = 2
                  THEN (IF amount = 1 THEN unit.suffix[1] ELSE unit.suffix[2])
                  ELSE unit.suffix[1]
    IN StrInt(amount) \o suffix

(* --------------------------- the object store -------------------------- *)
\* The store holds the listing of every prefix as a sequence of pages; a
\* page is [dirs |-> names of common prefixes, files |-> object records
\* [rel, Size, LastModified]], names relative to the listed prefix.
\* list_objects_v2(Bucket, Prefix, Delimiter="/", ContinuationToken): page
\* number `page` of the listing; the continuation token of a page is the
\* number of the page it continues with.
\* A key is never empty, so the listing of the root has no object named as
\* the prefix itself.
HasKey(content) == content.Key # <<>>

list_objects_v2(st, prefix, page) ==
    [IsTruncated |-> page < Len(st),
     NextContinuationToken |-> IF page < Len(st) THEN page + 1 ELSE 0,
     CommonPrefixes |->
        [i \in 1..Len(st[page].dirs) |->
            [Prefix |-> prefix \o st[page].dirs[i] \o <<"/">>,
             LastModified |-> Absent, Size |-> Absent]],
     Contents |->
        SelectSeq([i \in 1..Len(st[page].files) |->
                      [Key |-> prefix \o st[page].files[i].rel,
                       LastModified |-> st[page].files[i].LastModified,
                       Size |-> st[page].files[i].Size]],
                  HasKey)]

(* ------------------------------ inputs --------------------------------- *)
IndexUpper == <<"I", "N", "D", "E", "X", ".", "H", "T", "M", "L">>
IndexMixed == <<"I", "n", "d", "e", "x", ".", "H", "t", "m", "l">>

\* the records a listing is made of; names are relative to the prefix
RawDir(rel) == [is_dir |-> TRUE, rel |-> rel, Size |-> Absent,
                LastModified |-> Absent]
RawFile(rel, size, modified) == [is_dir |-> FALSE, rel |-> rel, Size |-> size,
                                 LastModified |-> modified]

\* what a directory of the store may hold, in the order of the keys, which
\* is the order the store lists them in: the marker of the directory, a
\* folder and a file named index.html, a file, a long-named file, a file
\* without a readable size, a long-named folder, a file without Size, a
\* file without LastModified, a folder
RawEntries ==
    << RawFile(<<>>, IntOf(0), DateTime1),
       RawDir(IndexUpper),
       RawFile(IndexMixed, IntOf(0), DateTime1),
       RawFile(<<"c", "+">>, IntOf(2048), DateTime1),
       RawFile(<<"g", Run>>, IntOf(1), DateTime1),
       RawFile(<<"n">>, None, DateTime1),
       RawDir(<<"p", Run>>),
       RawFile(<<"s">>, Absent, DateTime1),
       RawFile(<<"t">>, IntOf(5), Absent),
       RawDir(<<"x">>) >>

SeqsUpTo(S, n) == UNION {[1..k -> S] : k \in 0..n}

\* the members of a set of numbers in rising order
RECURSIVE SeqOfSet(_)
SeqOfSet(S) ==
    IF S = {} THEN <<>>
    ELSE LET m == CHOOSE x \in S : \A y \in S : x <= y
         IN <<m>> \o SeqOfSet(S \ {m})

\* the listings of a directory with up to MaxEntries records
FlatListings ==
    {[i \in 1..Cardinality(S) |-> RawEntries[SeqOfSet(S)[i]]] :
        S \in {T \in SUBSET (1..Len(RawEntries)) : Cardinality(T) <= MaxEntries}}

IsDirRaw(r) == r.is_dir
IsFileRaw(r) == ~r.is_dir

\* one page of the store: its common prefixes, then its objects
PageOf(seg) ==
    LET d == SelectSeq(seg, IsDirRaw)
        f == SelectSeq(seg, IsFileRaw)
    IN [dirs |-> [i \in 1..Len(d) |-> d[i].rel],
        files |-> [i \in 1..Len(f) |->
                      [rel |-> f[i].rel, Size |-> f[i].Size,
                       LastModified |-> f[i].LastModified]]]

\* the pages of a listing when the store returns k records a page (MaxKeys)
Paginate(f, k) ==
    LET p == IF Len(f) = 0 THEN 1 ELSE (Len(f) + k - 1) \div k
    IN [i \in 1..p |->
           PageOf(SubSeq(f, (i - 1) * k + 1,
                            IF i * k < Len(f) THEN i * k ELSE Len(f)))]

Stores == {Paginate(f, k) : f \in FlatListings, k \in 1..MaxPageSize}

Text_entry == <<"e", "n", "t", "r", "y">>

QueryStrings ==
    {<<>>, Text_entry \o <<"=", "x">>, Text_entry \o <<"=", "-", "1">>}
    \cup {Text_entry \o <<"=">> \o StrNat(n) : n \in 0..(MaxEntries + 1)}

Requests ==
    [uri : {<<"/", "d", "/">>, <<"/", "d", "/", ".", ".", "/">>},
     querystring : QueryStrings]

\* the uris of the second specification: a leading separator and up to
\* MaxUriAtoms of these pieces
UriAtoms == {<<"/">>, <<"a">>, <<".">>, <<"%", "2", "E">>, DEFAULT_OUTPUT_FILE}

RECURSIVE Flatten(_)
Flatten(ss) == IF ss = <<>> THEN <<>> ELSE Head(ss) \o Flatten(Tail(ss))

Uris == {<<"/">> \o Flatten(ss) : ss \in SeqsUpTo(UriAtoms, MaxUriAtoms)}

UriQueryStrings ==
    {<<>>, Text_entry \o <<"=", "x">>, Text_entry \o <<"=", "2">>}

UriRequests == [uri : Uris, querystring : UriQueryStrings]

\* its stores: an empty listing, and one of two pages
UriStores ==
    { Paginate(<<>>, 1),
      Paginate(<<RawEntries[1], RawEntries[2], RawEntries[4], RawEntries[5],
                 RawEntries[9], RawEntries[10]>>, 5) }

\* the third specification: directories of one file, of these sizes
Sizes ==
    {<<d1, d2, d3, d4, d5, d6>> :
        d1 \in {0, 1, 512, 1023}, d2 \in {0, 1, 1023}, d3 \in {0, 1, 1023},
        d4 \in {0, 1, 1023}, d5 \in {0, 1, 1023}, d6 \in {0, 1, 8}}

SizeStores ==
    {Paginate(<<[is_dir |-> FALSE, rel |-> <<"c">>, Size |-> SizeOf(w),
                 LastModified |-> DateTime1]>>, 1) : w \in Sizes}

\* the fourth specification: directories with names outside ASCII, in the
\* order of the keys
ByteEntries ==
    << RawEntries[4], RawEntries[10],
       RawFile(<<RunE>>, IntOf(1), DateTime1),
       RawFile(<<RunE, "z">>, IntOf(1), DateTime1) >>

ByteStores ==
    {Paginate([i \in 1..Cardinality(S) |-> ByteEntries[SeqOfSet(S)[i]]], k) :
        S \in (SUBSET (1..Len(ByteEntries))) \ {{}}, k \in 1..MaxPageSize}

(* ------------------------------- state --------------------------------- *)
VARIABLES
    store,          \* the object store: the pages of a listing
    request,        \* event['Records'][0]['cf']['request']
    pc,             \* where the invocation stands
    entry_offset,   \* lambda_handler / process_dir: entry_offset
    path_top_dir,   \* process_dir: str(path_top_dir)
    s3_result,      \* s3_list_dir: the page held (0: none yet)
    pos,            \* s3_list_dir: the next record of the page held
    entry_count,    \* process_dir: entry_count
    index_file,     \* process_dir: the rows written to index_file
    body_top,       \* process_dir: the notices appended to body_top
    result,         \* what lambda_handler returned or raised
    calls,          \* history: the list_objects_v2 calls of the invocation
    trace,          \* history: what became of each record pulled
    chain,          \* history: the earlier invocations of a chain of links
    other,          \* the locals of a second invocation, while it waits
    group_config,   \* pyartcd.util.branch_arches: group_config
    ga_only,        \* pyartcd.util.branch_arches: ga_only
    arches          \* pyartcd.util.branch_arches: what it returned

vars == <<store, request, pc, entry_offset, path_top_dir, s3_result, pos,
          entry_count, index_file, body_top, result, calls, trace, chain,
          other, group_config, ga_only, arches>>

\* what a step of the running invocation does not touch
aside == <<other, group_config, ga_only, arches>>

NoResult == [kind |-> "none"]

\* the locals of an invocation that was just triggered
Triggered(req) ==
    [request |-> req, pc |-> "lambda_handler", entry_offset |-> 0,
     path_top_dir |-> <<>>, s3_result |-> 0, pos |-> 1, entry_count |-> 0,
     index_file |-> <<>>, body_top |-> <<>>, result |-> NoResult,
     calls |-> <<>>, trace |-> <<>>, chain |-> <<>>]

\* no second invocation
NoInvocation ==
    [Triggered([uri |-> <<>>, querystring |-> <<>>]) EXCEPT !.pc = "none"]

\* branch_arches is not part of the run
NoGroupConfig == [kind |-> "not loaded"]
NotCalled == [kind |-> "none", val |-> <<>>]

(* --------------------------- lambda_handler ---------------------------- *)
\* lines 505-511: the directory key of a decoded uri
DirKey(uri) ==
    IF EndsWith(uri, <<"/">>) THEN RStrip(uri, "/")
    ELSE IF EndsWith(uri, DEFAULT_OUTPUT_FILE) THEN RSplitFirst(uri, "/")
    ELSE uri

\* lines 56-60 of s3_list_dir: the Prefix of the listing calls
Prefix(dir_path_arg) ==
    LET dir_path == LStrip(dir_path_arg, "/")
    IN IF dir_path \notin {<<>>, <<".">>, <<"/">>}
       THEN RStrip(dir_path, "/") \o <<"/">>
       ELSE <<>>

\* a response that lets the edge cache the listing
Response_cached(content) ==
    [kind |-> "response",
     status |-> "200",
     statusDescription |-> "OK",
     headers |-> [cache_control |-> <<[key |-> "Cache-Control", value |-> "max-age=300"]>>,
                  content_type |-> <<[key |-> "Content-Type", value |-> "text/html"]>>],
     body |-> content]

Response(content) ==
    [kind |-> "response",
     status |-> "200",
     statusDescription |-> "OK",
     headers |-> [cache_control |-> <<[key |-> "Cache-Control", value |-> "max-age=0"]>>,
                  content_type |-> <<[key |-> "Content-Type", value |-> "text/html"]>>],
     body |-> content]

Passthrough(req) == [kind |-> "request", request |-> req]

Raise(error) == [kind |-> "raise", error |-> error]

Init ==
    /\ store \in Stores
    /\ request \in Requests
    /\ pc = "lambda_handler"
    /\ entry_offset = 0
    /\ path_top_dir = <<>>
    /\ s3_result = 0
    /\ pos = 1
    /\ entry_count = 0
    /\ index_file = <<>>
    /\ body_top = <<>>
    /\ result = NoResult
    /\ calls = <<>>
    /\ trace = <<>>
    /\ chain = <<>>
    /\ other = NoInvocation
    /\ group_config = NoGroupConfig
    /\ ga_only = FALSE
    /\ arches = NotCalled

\* line 497: int() of the entry parameter raises ValueError
HandlerBadEntry ==
    /\ pc = "lambda_handler"
    /\ LET query_components == parse_qs(request.querystring, Text_entry)
       IN /\ query_components # <<>>
          /\ ~IntOk(query_components[1])
    /\ result' = Raise("ValueError")
    /\ pc' = "done"
    /\ UNCHANGED <<aside, store, request, entry_offset, path_top_dir, s3_result, pos,
                   entry_count, index_file, body_top, calls, trace, chain>>

\* line 497 with the parameter read as the number of entries to skip
EntryOffset_skipCount(query_string) ==
    LET query_components == parse_qs(query_string, Text_entry)
    IN IF query_components # <<>> THEN IntVal(query_components[1]) + 1 ELSE 0

\* lines 495-497
EntryOffset(query_string) ==
    LET query_components == parse_qs(query_string, Text_entry)
    IN IF query_components # <<>> THEN IntVal(query_components[1]) ELSE 0

EntryOk(query_string) ==
    LET query_components == parse_qs(query_string, Text_entry)
    IN query_components # <<>> => IntOk(query_components[1])

\* lines 499-500: '..' in the uri as received
Rejected(uri) == Contains(uri, <<".", ".">>)

HandlerReject ==
    /\ pc = "lambda_handler"
    /\ EntryOk(request.querystring)
    /\ Rejected(request.uri)
    /\ entry_offset' = EntryOffset(request.querystring)
    /\ result' = Passthrough(request)
    /\ pc' = "done"
    /\ UNCHANGED <<aside, store, request, path_top_dir, s3_result, pos,
                   entry_count, index_file, body_top, calls, trace, chain>>

\* lines 503-513: decode, derive the directory, enter process_dir
HandlerAccept ==
    /\ pc = "lambda_handler"
    /\ EntryOk(request.querystring)
    /\ ~Rejected(request.uri)
    /\ entry_offset' = EntryOffset(request.querystring)
    /\ path_top_dir' = PathStr(DirKey(unquote(request.uri)))
    /\ pc' = "s3_list_dir"
    /\ UNCHANGED <<aside, store, request, s3_result, pos, entry_count, index_file,
                   body_top, result, calls, trace, chain>>

(* ----------------------------- s3_list_dir ----------------------------- *)
\* the page the generator holds, and its records in the order it walks them
Page == list_objects_v2(store, Prefix(path_top_dir), s3_result)

PageLen == Len(Page.CommonPrefixes) + Len(Page.Contents)

IsCommonPrefix(i) == i <= Len(Page.CommonPrefixes)

Record(i) == IF IsCommonPrefix(i) THEN Page.CommonPrefixes[i]
             ELSE Page.Contents[i - Len(Page.CommonPrefixes)]

\* line 63 reached before the page held was walked: the next page is
\* fetched as soon as the page held says there is one
NeedsList_eager ==
    IF s3_result = 0 THEN TRUE ELSE Page.IsTruncated

\* line 63: while not s3_result or s3_result['IsTruncated'], reached with
\* nothing fetched yet or with the page held walked to its end
NeedsList ==
    IF s3_result = 0 THEN TRUE ELSE pos > PageLen /\ Page.IsTruncated

\* lines 64-71 with the continuation token never passed on
ListCall_noToken ==
    [Bucket |-> BucketName,
     Prefix |-> Prefix(path_top_dir),
     Delimiter |-> "/",
     ContinuationToken |-> 0]

\* lines 64-71: the call and its arguments
ListCall ==
    LET continuation_key == IF s3_result = 0 THEN 0
                            ELSE Page.NextContinuationToken
    IN [Bucket |-> BucketName,
        Prefix |-> Prefix(path_top_dir),
        Delimiter |-> "/",
        ContinuationToken |-> continuation_key]

\* the store answering every call with its first page
PageFor_first(call) == 1

\* the page a call returns: the first one without a continuation token
PageFor(call) == IF call.ContinuationToken = 0 THEN 1 ELSE call.ContinuationToken

Logged(call, outcome) == [call |-> call, outcome |-> outcome]

\* line 71: the store answers with a page
ListOk ==
    /\ pc = "s3_list_dir"
    /\ NeedsList
    /\ calls' = Append(calls, Logged(ListCall, "page"))
    /\ s3_result' = PageFor(ListCall)
    /\ pos' = 1
    /\ UNCHANGED <<aside, store, request, pc, entry_offset, path_top_dir, entry_count,
                   index_file, body_top, result, trace, chain>>

\* line 71 raises; lines 91-92: the generator yields the exception as its
\* last element
ListFail ==
    /\ pc = "s3_list_dir"
    /\ NeedsList
    /\ calls' = Append(calls, Logged(ListCall, "error"))
    /\ pc' = "yielded_exception"
    /\ UNCHANGED <<aside, store, request, entry_offset, path_top_dir, s3_result, pos,
                   entry_count, index_file, body_top, result, trace, chain>>

\* line 87 with the directory as it was passed, not the normalized prefix
IsMarker_rawPath(i) == ~IsCommonPrefix(i) /\ Record(i).Key = path_top_dir

\* line 87: an object whose key is the prefix itself
IsMarker(i) == ~IsCommonPrefix(i) /\ Record(i).Key = Prefix(path_top_dir)

Pulled(outcome, count) ==
    [page |-> s3_result, pos |-> pos, count |-> count, outcome |-> outcome]

\* lines 87-89: continue
SkipMarker ==
    /\ pc = "s3_list_dir"
    /\ s3_result > 0
    /\ pos <= PageLen
    /\ IsMarker(pos)
    /\ pos' = pos + 1
    /\ trace' = Append(trace, Pulled("marker", entry_count))
    /\ UNCHANGED <<aside, store, request, pc, entry_offset, path_top_dir, s3_result,
                   entry_count, index_file, body_top, result, calls, chain>>

\* lines 78 and 90: the generator yields the next entry
Yields == pc = "s3_list_dir" /\ s3_result > 0 /\ pos <= PageLen /\ ~IsMarker(pos)

Entry == S3Path(IsCommonPrefix(pos), Record(pos))

(* ----------------------------- process_dir ----------------------------- *)
\* line 404 without lower()
IsIndexFile_exact(entry) == entry.name = DEFAULT_OUTPUT_FILE

\* line 404
IsIndexFile(entry) == Lower(entry.name) = DEFAULT_OUTPUT_FILE

\* line 412 with <= for <
BeforeOffset_le(count, offset) == count <= offset

\* line 412
BeforeOffset(count, offset) == count < offset

\* lines 420-430: reading the size and the timestamp of a file raises
MetadataFails(entry) ==
    /\ ~entry.is_dir
    /\ \/ entry.size.kind # "int"
       \/ entry.last_modified.kind # "datetime"

Text_mdash == <<"&", "m", "d", "a", "s", "h", ";">>
Text_folder == <<"f", "o", "l", "d", "e", "r">>
Text_file == <<"f", "i", "l", "e">>

\* os.path.join(name, '')
JoinEmpty(name) == IF name = <<>> \/ Last(name) = "/" THEN name
                   ELSE name \o <<"/">>

\* lines 415-464: the substitutions of the row of an entry
Row(entry) ==
    [href |-> quote(IF entry.is_dir THEN JoinEmpty(entry.name) ELSE entry.name),
     entry_type |-> IF entry.is_dir THEN Text_folder ELSE Text_file,
     name |-> entry.name,
     size_bytes |-> IF entry.is_dir THEN StrInt(0 - 1) ELSE StrWide(entry.size.val),
     size_pretty |-> IF entry.is_dir THEN Text_mdash ELSE pretty_size(entry.size.val),
     last_modified_iso |-> IF entry.is_dir THEN <<>>
                           ELSE isoformat(entry.last_modified),
     last_modified_human_readable |-> IF entry.is_dir THEN <<"-">>
                                      ELSE strftime(entry.last_modified)]

RowLen(row) ==
    RowFixedLen + StrLen(row.href) + StrLen(row.entry_type) + StrLen(row.name)
        + StrLen(row.size_bytes) + StrLen(row.size_pretty)
        + StrLen(row.last_modified_iso)
        + StrLen(row.last_modified_human_readable)

\* len(row.encode()): the bytes of a row in UTF-8
RowBytes(row) ==
    RowFixedLen + ByteSize(row.href) + ByteSize(row.entry_type)
        + ByteSize(row.name) + ByteSize(row.size_bytes)
        + ByteSize(row.size_pretty) + ByteSize(row.last_modified_iso)
        + ByteSize(row.last_modified_human_readable)

\* len(index_file.getvalue().encode())
RECURSIVE TellBytes(_)
TellBytes(rows) ==
    IF rows = <<>> THEN 0 ELSE RowBytes(Head(rows)) + TellBytes(Tail(rows))

\* index_file.tell()
RECURSIVE Tell(_)
Tell(rows) == IF rows = <<>> THEN 0 ELSE RowLen(Head(rows)) + Tell(Tail(rows))

\* line 465 with the number of rows for the characters written
Truncates_rows(rows) == Len(rows) > TruncateAt

\* line 465
Truncates(rows) == Tell(rows) > TruncateAt

\* line 466 naming the entry just rendered
NextPageEntry_same(count) == count

\* line 466: the entry the next-page link names
NextPageEntry(count) == count + 1

\* lines 400-401 leaving the loop instead of raising
RaiseEntry_break ==
    /\ pc = "yielded_exception"
    /\ pc' = "break"
    /\ UNCHANGED <<aside, store, request, entry_offset, path_top_dir, s3_result, pos,
                   entry_count, index_file, body_top, result, calls, trace,
                   chain>>

\* lines 400-401: the element pulled is an exception; process_dir raises
\* it and lambda_handler lets it pass
RaiseEntry ==
    /\ pc = "yielded_exception"
    /\ result' = Raise("ListError")
    /\ pc' = "done"
    /\ UNCHANGED <<aside, store, request, entry_offset, path_top_dir, s3_result, pos,
                   entry_count, index_file, body_top, calls, trace, chain>>

\* lines 404-405: continue, before the entry is counted
SkipIndex ==
    /\ Yields
    /\ IsIndexFile(Entry)
    /\ pos' = pos + 1
    /\ trace' = Append(trace, Pulled("index", entry_count))
    /\ UNCHANGED <<aside, store, request, pc, entry_offset, path_top_dir, s3_result,
                   entry_count, index_file, body_top, result, calls, chain>>

\* lines 410-413: counted, not rendered
SkipOffset ==
    /\ Yields
    /\ ~IsIndexFile(Entry)
    /\ BeforeOffset(entry_count + 1, entry_offset)
    /\ entry_count' = entry_count + 1
    /\ pos' = pos + 1
    /\ trace' = Append(trace, Pulled("offset", entry_count + 1))
    /\ UNCHANGED <<aside, store, request, pc, entry_offset, path_top_dir, s3_result,
                   index_file, body_top, result, calls, chain>>

\* lines 428-430 with the entry counted only once its metadata was read
DropEntry_uncounted ==
    /\ Yields
    /\ ~IsIndexFile(Entry)
    /\ ~BeforeOffset(entry_count + 1, entry_offset)
    /\ MetadataFails(Entry)
    /\ pos' = pos + 1
    /\ trace' = Append(trace, Pulled("dropped", entry_count))
    /\ UNCHANGED <<aside, store, request, pc, entry_offset, path_top_dir, s3_result,
                   entry_count, index_file, body_top, result, calls, chain>>

\* lines 428-430: counted, logged, not rendered
DropEntry ==
    /\ Yields
    /\ ~IsIndexFile(Entry)
    /\ ~BeforeOffset(entry_count + 1, entry_offset)
    /\ MetadataFails(Entry)
    /\ entry_count' = entry_count + 1
    /\ pos' = pos + 1
    /\ trace' = Append(trace, Pulled("dropped", entry_count + 1))
    /\ UNCHANGED <<aside, store, request, pc, entry_offset, path_top_dir, s3_result,
                   index_file, body_top, result, calls, chain>>

\* lines 455-463 with the rows of folders kept ahead of the rows of files
Emit_dirsFirst(rows, entry) ==
    IF entry.is_dir THEN <<Row(entry)>> \o rows ELSE Append(rows, Row(entry))

\* lines 455-463: index_file.write, the row goes after the rows written
Emit(rows, entry) == Append(rows, Row(entry))

\* lines 432-467 without the break of line 467: the notice is added and the
\* loop goes on
RenderEntry_nobreak ==
    /\ Yields
    /\ ~IsIndexFile(Entry)
    /\ ~BeforeOffset(entry_count + 1, entry_offset)
    /\ ~MetadataFails(Entry)
    /\ entry_count' = entry_count + 1
    /\ index_file' = Append(index_file, Row(Entry))
    /\ pos' = pos + 1
    /\ trace' = Append(trace, Pulled("row", entry_count + 1))
    /\ body_top' = IF Truncates(index_file')
                   THEN Append(body_top, NextPageEntry(entry_count'))
                   ELSE body_top
    /\ UNCHANGED <<aside, store, request, pc, entry_offset, path_top_dir, s3_result,
                   result, calls, chain>>

\* lines 432-467: the row is written; past the cap the notice is added to
\* body_top and the loop is left
RenderEntry ==
    /\ Yields
    /\ ~IsIndexFile(Entry)
    /\ ~BeforeOffset(entry_count + 1, entry_offset)
    /\ ~MetadataFails(Entry)
    /\ entry_count' = entry_count + 1
    /\ index_file' = Emit(index_file, Entry)
    /\ pos' = pos + 1
    /\ trace' = Append(trace, Pulled("row", entry_count + 1))
    /\ IF Truncates(index_file')
       THEN /\ body_top' = Append(body_top, NextPageEntry(entry_count'))
            /\ pc' = "break"
       ELSE /\ body_top' = body_top
            /\ pc' = pc
    /\ UNCHANGED <<aside, store, request, entry_offset, path_top_dir, s3_result,
                   result, calls, chain>>

\* the generator is exhausted, or the loop was left at line 467
LoopOver ==
    IF pc = "break" THEN TRUE
    ELSE IF pc = "s3_list_dir" /\ s3_result > 0
         THEN pos > PageLen /\ ~Page.IsTruncated
         ELSE FALSE

\* line 476: the document process_dir returns
Content == [body_top |-> body_top, index_file |-> index_file]

\* lines 515-516
ReturnRequest ==
    /\ LoopOver
    /\ entry_count = 0
    /\ result' = Passthrough(request)
    /\ pc' = "done"
    /\ UNCHANGED <<aside, store, request, entry_offset, path_top_dir, s3_result, pos,
                   entry_count, index_file, body_top, calls, trace, chain>>

\* lines 518-536 without the test of line 515 before them
ReturnResponse_always ==
    /\ LoopOver
    /\ result' = Response(Content)
    /\ pc' = "done"
    /\ UNCHANGED <<aside, store, request, entry_offset, path_top_dir, s3_result, pos,
                   entry_count, index_file, body_top, calls, trace, chain>>

\* lines 518-536
ReturnResponse ==
    /\ LoopOver
    /\ entry_count # 0
    /\ result' = Response(Content)
    /\ pc' = "done"
    /\ UNCHANGED <<aside, store, request, entry_offset, path_top_dir, s3_result, pos,
                   entry_count, index_file, body_top, calls, trace, chain>>

(* ------------------------- the next-page link -------------------------- *)
\* line 466: href="?entry={entry_count + 1}"
NextPageQuery(n) == Text_entry \o <<"=">> \o StrInt(n)

\* the client follows the link of a truncated listing: the same uri with
\* the query string of the link, a new invocation over the same store
FollowLink ==
    /\ pc = "done"
    /\ result.kind = "response"
    /\ result.body.body_top # <<>>
    /\ request' = [request EXCEPT
                      !.querystring = NextPageQuery(result.body.body_top[1])]
    /\ chain' = Append(chain, [entry_offset |-> entry_offset, trace |-> trace,
                               entry_count |-> entry_count])
    /\ pc' = "lambda_handler"
    /\ entry_offset' = 0
    /\ path_top_dir' = <<>>
    /\ s3_result' = 0
    /\ pos' = 1
    /\ entry_count' = 0
    /\ index_file' = <<>>
    /\ body_top' = <<>>
    /\ result' = NoResult
    /\ calls' = <<>>
    /\ trace' = <<>>
    /\ UNCHANGED <<aside, store>>

(* ------------------------ a second invocation ------------------------- *)
\* the locals of the running invocation
Locals ==
    [request |-> request, pc |-> pc, entry_offset |-> entry_offset,
     path_top_dir |-> path_top_dir, s3_result |-> s3_result, pos |-> pos,
     entry_count |-> entry_count, index_file |-> index_file,
     body_top |-> body_top, result |-> result, calls |-> calls,
     trace |-> trace, chain |-> chain]

\* the switch with entry_count a module-level counter of both invocations
Switch_sharedCount ==
    /\ other.pc # "none"
    /\ other' = Locals
    /\ request' = other.request
    /\ pc' = other.pc
    /\ entry_offset' = other.entry_offset
    /\ path_top_dir' = other.path_top_dir
    /\ s3_result' = other.s3_result
    /\ pos' = other.pos
    /\ index_file' = other.index_file
    /\ body_top' = other.body_top
    /\ result' = other.result
    /\ calls' = other.calls
    /\ trace' = other.trace
    /\ chain' = other.chain
    /\ UNCHANGED <<store, entry_count, group_config, ga_only, arches>>

\* two invocations run interleaved: between two steps the one that runs
\* gives way to the other; each has its own locals (the frames of
\* lambda_handler, process_dir and s3_list_dir), the store is common
Switch ==
    /\ other.pc # "none"
    /\ other' = Locals
    /\ request' = other.request
    /\ pc' = other.pc
    /\ entry_offset' = other.entry_offset
    /\ path_top_dir' = other.path_top_dir
    /\ s3_result' = other.s3_result
    /\ pos' = other.pos
    /\ entry_count' = other.entry_count
    /\ index_file' = other.index_file
    /\ body_top' = other.body_top
    /\ result' = other.result
    /\ calls' = other.calls
    /\ trace' = other.trace
    /\ chain' = other.chain
    /\ UNCHANGED <<store, group_config, ga_only, arches>>

Next ==
    \/ HandlerBadEntry
    \/ HandlerReject
    \/ HandlerAccept
    \/ ListOk
    \/ ListFail
    \/ SkipMarker
    \/ RaiseEntry
    \/ SkipIndex
    \/ SkipOffset
    \/ DropEntry
    \/ RenderEntry
    \/ ReturnRequest
    \/ ReturnResponse
    \/ FollowLink

Spec == Init /\ [][Next]_vars

\* the same program over many uris and few stores
InitUri ==
    /\ store \in UriStores
    /\ request \in UriRequests
    /\ pc = "lambda_handler"
    /\ entry_offset = 0
    /\ path_top_dir = <<>>
    /\ s3_result = 0
    /\ pos = 1
    /\ entry_count = 0
    /\ index_file = <<>>
    /\ body_top = <<>>
    /\ result = NoResult
    /\ calls = <<>>
    /\ trace = <<>>
    /\ chain = <<>>
    /\ other = NoInvocation
    /\ group_config = NoGroupConfig
    /\ ga_only = FALSE
    /\ arches = NotCalled

SpecUri == InitUri /\ [][Next]_vars

\* the same program over one-file directories of many sizes
InitSize ==
    /\ \/ /\ store \in SizeStores
          /\ request = [uri |-> <<"/", "d", "/">>, querystring |-> <<>>]
       \/ /\ store \in UriStores
          /\ request \in Requests
    /\ pc = "lambda_handler"
    /\ entry_offset = 0
    /\ path_top_dir = <<>>
    /\ s3_result = 0
    /\ pos = 1
    /\ entry_count = 0
    /\ index_file = <<>>
    /\ body_top = <<>>
    /\ result = NoResult
    /\ calls = <<>>
    /\ trace = <<>>
    /\ chain = <<>>
    /\ other = NoInvocation
    /\ group_config = NoGroupConfig
    /\ ga_only = FALSE
    /\ arches = NotCalled

SpecSize == InitSize /\ [][Next]_vars

InitBytes ==
    /\ \/ /\ store \in ByteStores
          /\ request = [uri |-> <<"/", "d", "/">>, querystring |-> <<>>]
       \/ /\ store \in UriStores
          /\ request \in Requests
    /\ pc = "lambda_handler"
    /\ entry_offset = 0
    /\ path_top_dir = <<>>
    /\ s3_result = 0
    /\ pos = 1
    /\ entry_count = 0
    /\ index_file = <<>>
    /\ body_top = <<>>
    /\ result = NoResult
    /\ calls = <<>>
    /\ trace = <<>>
    /\ chain = <<>>
    /\ other = NoInvocation
    /\ group_config = NoGroupConfig
    /\ ga_only = FALSE
    /\ arches = NotCalled

SpecBytes == InitBytes /\ [][Next]_vars

\* two invocations for different requests over one store
PairRequests ==
    {[uri |-> <<"/", "d", "/">>, querystring |-> Text_entry \o <<"=", "2">>],
     [uri |-> <<"/", "d", "/">>, querystring |-> Text_entry \o <<"=", "x">>],
     [uri |-> <<"/", "d", "/", ".", ".", "/">>, querystring |-> <<>>],
     [uri |-> <<"/", "e", "/", "i", "n", "d", "e", "x", ".", "h", "t", "m", "l">>,
      querystring |-> <<>>]}

InitPair ==
    /\ store \in UriStores
    /\ request = [uri |-> <<"/", "d", "/">>, querystring |-> <<>>]
    /\ pc = "lambda_handler"
    /\ entry_offset = 0
    /\ path_top_dir = <<>>
    /\ s3_result = 0
    /\ pos = 1
    /\ entry_count = 0
    /\ index_file = <<>>
    /\ body_top = <<>>
    /\ result = NoResult
    /\ calls = <<>>
    /\ trace = <<>>
    /\ chain = <<>>
    /\ other \in {Triggered(r) : r \in PairRequests}
    /\ group_config = NoGroupConfig
    /\ ga_only = FALSE
    /\ arches = NotCalled

NextPair ==
    \/ Next
    \/ Switch

SpecPair == InitPair /\ [][NextPair]_vars

(* ------------------- pyartcd.util.branch_arches ----------------------- *)
\* the CPU architectures a group config may name
ArchNames == {"x86_64", "aarch64", "s390x"}

\* a YAML list as a value of the group config
ListOf(items) == [kind |-> "list", val |-> items]

\* a YAML string and a YAML mapping as values of the group config
StrOf(chars) == [kind |-> "str", val |-> chars]
DictOf(pairs) == [kind |-> "dict", val |-> pairs]

\* the lists of arches of at most MaxArches names
ArchLists == {ListOf(items) : items \in UNION {[1..n -> ArchNames] : n \in 0..MaxArches}}

\* what the parsed YAML of a group config holds under arches_override
\* besides a list: nothing, null, a string, a mapping
OtherValues ==
    {Absent, None, StrOf(<<>>), StrOf(<<"p", "p", "c", "6", "4", "l", "e">>),
     DictOf(<<>>), DictOf(<< <<"a", 1>> >>)}

\* what load_group_config may return at line 128, a dict (lines 65-68):
\* `arches` is a list, null or missing, `arches_override` is a list or one
\* of the other values
GroupConfigs ==
    [arches : ArchLists \cup {Absent, None},
     arches_override : ArchLists \cup OtherValues]

\* Python truth of a value of a group config: None and the empty list,
\* string and mapping are false
Truthy(value) == value # None /\ value.val # <<>>

\* group_config[key] (line 137): the value, or KeyError
Subscript(field) ==
    IF field = Absent THEN Raise("KeyError") ELSE [kind |-> "return", value |-> field]

\* lines 132-137, with the override never returned
branch_arches_groupOnly(config, only) == Subscript(config.arches)

\* lines 132-137
branch_arches(config, only) ==
    LET arches_override == Get(config.arches_override, None)
    IN IF Truthy(arches_override) /\ only
       THEN [kind |-> "return", value |-> arches_override]
       ELSE Subscript(config.arches)

\* branch_arches is suspended at the await of line 128 and the event loop
\* runs other tasks; no task reads or writes what branch_arches holds
Awaiting == [kind |-> "awaiting", val |-> <<>>]

\* lines 127-128: branch_arches is called and awaits load_group_config
CallBranchArches ==
    /\ arches = NotCalled
    /\ arches' = Awaiting
    /\ UNCHANGED <<store, request, pc, entry_offset, path_top_dir, s3_result,
                   pos, entry_count, index_file, body_top, result, calls,
                   trace, chain, other, group_config, ga_only>>

\* line 128 resumes with the group config and lines 132-137 run to the
\* return
ResumeBranchArches ==
    /\ arches = Awaiting
    /\ \E config \in GroupConfigs :
           /\ group_config' = config
           /\ arches' = branch_arches(config, ga_only)
    /\ UNCHANGED <<store, request, pc, entry_offset, path_top_dir, s3_result,
                   pos, entry_count, index_file, body_top, result, calls,
                   trace, chain, other, ga_only>>

\* lines 66-67 of load_group_config: the YAML is not a mapping, and the
\* ValueError leaves branch_arches at line 128
LoadFails ==
    /\ arches = Awaiting
    /\ arches' = Raise("ValueError")
    /\ UNCHANGED <<store, request, pc, entry_offset, path_top_dir, s3_result,
                   pos, entry_count, index_file, body_top, result, calls,
                   trace, chain, other, group_config, ga_only>>

\* branch_arches alone: no index is being generated
InitArches ==
    /\ store = <<>>
    /\ request = NoInvocation.request
    /\ pc = "none"
    /\ entry_offset = 0
    /\ path_top_dir = <<>>
    /\ s3_result = 0
    /\ pos = 1
    /\ entry_count = 0
    /\ index_file = <<>>
    /\ body_top = <<>>
    /\ result = NoResult
    /\ calls = <<>>
    /\ trace = <<>>
    /\ chain = <<>>
    /\ other = NoInvocation
    /\ group_config = NoGroupConfig
    /\ ga_only \in BOOLEAN
    /\ arches = NotCalled

NextArches ==
    \/ CallBranchArches
    \/ ResumeBranchArches
    \/ LoadFails

SpecArches == InitArches /\ [][NextArches]_vars

(* ======================== properties of the listing =================== *)
\* the store's own view of the listing: the objects of a page that the
\* answer to a call with the Prefix of the invocation holds (an object of
\* empty key is none), and the record at a place of that answer
IsReturned(file) == file.rel # <<>> \/ Prefix(path_top_dir) # <<>>

ReturnedFiles(page) == SelectSeq(store[page].files, IsReturned)

StoreLen(page) == Len(store[page].dirs) + Len(ReturnedFiles(page))

StoreRecord(page, i) ==
    IF i <= Len(store[page].dirs)
    THEN [is_dir |-> TRUE, rel |-> store[page].dirs[i],
          Size |-> Absent, LastModified |-> Absent]
    ELSE LET file == ReturnedFiles(page)[i - Len(store[page].dirs)]
         IN [is_dir |-> FALSE, rel |-> file.rel, Size |-> file.Size,
             LastModified |-> file.LastModified]

\* the entry of a record of the listing: S3Path of its CommonPrefixes or
\* Contents record, whose Prefix or Key begins with the Prefix of the call
RecordEntry(rec) ==
    S3Path(rec.is_dir,
           [Prefix |-> Prefix(path_top_dir) \o rec.rel \o <<"/">>,
            Key |-> Prefix(path_top_dir) \o rec.rel,
            Size |-> rec.Size, LastModified |-> rec.LastModified])

\* two characters that differ in case at most
SameLetter(c, d) ==
    \/ c = d
    \/ \E i \in 1..Len(UpperChars) :
          {c, d} = {UpperChars[i], LowerChars[i]}

\* the text is index.html in some mix of upper and lower case
NamedIndexHtml(name) ==
    /\ Len(name) = Len(DEFAULT_OUTPUT_FILE)
    /\ \A i \in 1..Len(name) : SameLetter(name[i], DEFAULT_OUTPUT_FILE[i])

\* the record of an element of the trace
TraceRecord(te) == StoreRecord(te.page, te.pos)

\* the elements of the trace that process_dir counted
Counted(te) == te.outcome \in {"offset", "dropped", "row"}

Done == pc = "done"

\* the decoded uri of the request names a parent directory
DecodedHasDotDot == Contains(unquote(request.uri), <<".", ".">>)

\* C1 (as claimed): for a request whose percent-decoded uri contains `..`,
\* the dots literal or percent-encoded, what lambda_handler returns is the
\* request itself, unchanged in every field, and no synthesized listing.
C1_DotDotPassthrough ==
    (Done /\ DecodedHasDotDot /\ result.kind # "raise") =>
        (result.kind = "request" /\ result.request = request)

\* C5: when the path is valid and the enumeration succeeds, the request is
\* returned unmodified exactly when the renderer counted no entry; in every
\* other case the answer is 200 / OK with Content-Type text/html,
\* Cache-Control max-age=0 and the rendered document as body.
EnumerationSucceeded ==
    /\ Done
    /\ calls # <<>>
    /\ \A i \in 1..Len(calls) : calls[i].outcome = "page"

C5_ResponseDecision ==
    EnumerationSucceeded =>
        /\ result.kind \in {"request", "response"}
        /\ (result.kind = "request") <=> (entry_count = 0)
        /\ result.kind = "request" => result.request = request
        /\ result.kind = "response" =>
              /\ result.status = "200"
              /\ result.statusDescription = "OK"
              /\ result.headers.content_type =
                    <<[key |-> "Content-Type", value |-> "text/html"]>>
              /\ result.headers.cache_control =
                    <<[key |-> "Cache-Control", value |-> "max-age=0"]>>
              /\ result.body.index_file = index_file
              /\ result.body.body_top = body_top

C5_Witness ==
    /\ EnumerationSucceeded
    /\ result.kind = "response"
    /\ entry_count >= 2
    /\ index_file # <<>>

\* C6: no row of a listing, at any time, is the row of an entry named
\* index.html in any mix of case, be it an object or a common prefix.
C6_NoIndexHtmlRow ==
    /\ \A i \in 1..Len(index_file) : ~NamedIndexHtml(index_file[i].name)
    /\ result.kind = "response" =>
          \A i \in 1..Len(result.body.index_file) :
              ~NamedIndexHtml(result.body.index_file[i].name)

\* an index.html common prefix and an index.html object were both pulled,
\* and the listing was returned with a row
C6_Witness ==
    /\ Done
    /\ result.kind = "response"
    /\ index_file # <<>>
    /\ \E i, j \in 1..Len(trace) :
          /\ TraceRecord(trace[i]).is_dir
          /\ NamedIndexHtml(TraceRecord(trace[i]).rel)
          /\ ~TraceRecord(trace[j]).is_dir
          /\ NamedIndexHtml(TraceRecord(trace[j]).rel)

\* C7: a listing call that fails, on the first page or a later one, ends
\* the invocation: no further call is issued, no entry is processed after
\* it, and the invocation raises that failure instead of returning a 200
\* response or the request.
SomeCallFailed == \E i \in 1..Len(calls) : calls[i].outcome = "error"

C7_FailureTerminal ==
    SomeCallFailed =>
        /\ calls[Len(calls)].outcome = "error"
        /\ \A i \in 1..(Len(calls) - 1) : calls[i].outcome = "page"
        /\ pc \in {"yielded_exception", "done"}
        /\ Done => result = Raise("ListError")

\* the second call failed after a row of the first page had been written
C7_Witness ==
    /\ Done
    /\ Len(calls) = 2
    /\ calls[2].outcome = "error"
    /\ index_file # <<>>
    /\ result.kind = "raise"

\* C10 (as claimed): the prefix of the listing calls is the decoded uri
\* minus its trailing separator when it ends in `/`, minus `index.html` and
\* the separator before it when it ends in that file name, and the uri as
\* it is otherwise; the directory so named is then normalised as the code
\* normalises it (pathlib, and the separators of s3_list_dir).
ClaimedDirKey(uri) ==
    IF EndsWith(uri, <<"/">>) THEN Front(uri)
    ELSE IF uri = DEFAULT_OUTPUT_FILE
         THEN <<>>
    ELSE IF EndsWith(uri, <<"/">> \o DEFAULT_OUTPUT_FILE)
         THEN SubSeq(uri, 1, Len(uri) - Len(DEFAULT_OUTPUT_FILE) - 1)
    ELSE uri

ClaimedPrefix(uri) == Prefix(PathStr(ClaimedDirKey(unquote(uri))))

C10_PrefixDerivation ==
    \A i \in 1..Len(calls) :
        calls[i].call.Prefix = ClaimedPrefix(request.uri)

(* ------------------- rendering, counting, pagination -------------------- *)
\* the metadata of a record that process_dir can read: a missing Size
\* counts as 0
CodeReadable(rec) ==
    \/ rec.is_dir
    \/ (rec.Size.kind \in {"int", "absent"} /\ rec.LastModified.kind = "datetime")

\* the metadata of a record is present and readable
MetadataPresent(rec) ==
    \/ rec.is_dir
    \/ (rec.Size.kind = "int" /\ rec.LastModified.kind = "datetime")

IsRowElement(te) == te.outcome = "row"

\* the elements of the trace that got a row, in order
RowElements == SelectSeq(trace, IsRowElement)

\* C4 (as claimed): a synthesized 200 response always has at least one row.
C4_NonEmptyResponse ==
    (Done /\ result.kind = "response") => result.body.index_file # <<>>

\* C4 (amended): a synthesized 200 response is returned only when at least
\* one entry was counted, and its body has a row exactly when some counted
\* entry at or after the offset has readable metadata.
C4_CountedResponse ==
    (Done /\ result.kind = "response") =>
        /\ entry_count >= 1
        /\ (result.body.index_file # <<>>) <=>
              \E i \in 1..Len(trace) :
                  /\ Counted(trace[i])
                  /\ trace[i].count >= entry_offset
                  /\ CodeReadable(TraceRecord(trace[i]))

\* a 200 response without a row
C4_Witness ==
    /\ Done
    /\ result.kind = "response"
    /\ result.body.index_file = <<>>
    /\ entry_count >= 1

\* C9 (as claimed): with skipCount s >= 0 the first s counted entries get no
\* markup, the first row being that of the entry counted s + 1.
C9_SkipCount ==
    entry_offset >= 0 =>
        \A i \in 1..Len(trace) :
            (Counted(trace[i]) /\ trace[i].count <= entry_offset)
                => trace[i].outcome # "row"

\* C9 (amended): with entry offset s the counted entries before the s-th
\* get no markup (s - 1 of them for s >= 1, none for s <= 1), every entry
\* from the s-th on is taken for rendering, and the entry at which the
\* count reaches s (1 for s <= 0) has the first row when its metadata is
\* readable.
FirstShown == IF entry_offset >= 1 THEN entry_offset ELSE 1

C9_SkipBeforeOffset ==
    \A i \in 1..Len(trace) :
        Counted(trace[i]) =>
            /\ (trace[i].outcome = "offset") <=> (trace[i].count < entry_offset)
            /\ (trace[i].count = FirstShown /\ CodeReadable(TraceRecord(trace[i])))
                  => /\ trace[i].outcome = "row"
                     /\ index_file # <<>>
                     /\ index_file[1].name = TraceRecord(trace[i]).rel

\* two entries were skipped and the third has the first row
C9_Witness ==
    /\ Done
    /\ entry_offset = 3
    /\ Len(trace) = 3
    /\ trace[1].outcome = "offset"
    /\ trace[2].outcome = "offset"
    /\ trace[3].outcome = "row"
    /\ Len(index_file) = 1

\* C3 (as claimed): with skipCount 0, when the rows first exceed 1,000,000
\* characters at counted entry k, rendering stops right there with exactly
\* k rows and a notice linking to entry k + 1.
C3_TruncationRows ==
    (entry_offset = 0 /\ body_top # <<>>) =>
        /\ pc \in {"break", "done"}
        /\ Len(index_file) = entry_count
        /\ body_top = <<entry_count + 1>>
        /\ trace[Len(trace)].outcome = "row"
        /\ trace[Len(trace)].count = entry_count

\* C3 (amended): with skipCount 0, rows are written only while the rows so
\* far do not exceed 1,000,000 characters; when they first exceed it, at
\* counted entry k, rendering stops right there: the listing has one row for
\* each of the first k counted entries whose metadata is readable (k rows
\* when none was dropped) and a notice linking to entry k + 1, and entry k
\* is the last one pulled.
C3_TruncationStops ==
    entry_offset = 0 =>
        /\ pc = "s3_list_dir" =>
              (Tell(index_file) <= TruncateAt /\ body_top = <<>>)
        /\ (Done /\ result.kind = "response" /\ body_top = <<>>) =>
              Tell(index_file) <= TruncateAt
        /\ body_top # <<>> =>
              /\ pc \in {"break", "done"}
              /\ Tell(index_file) > TruncateAt
              /\ Tell(Front(index_file)) <= TruncateAt
              /\ body_top = <<entry_count + 1>>
              /\ trace[Len(trace)].outcome = "row"
              /\ trace[Len(trace)].count = entry_count
              /\ Len(index_file) =
                    Cardinality({i \in 1..Len(trace) :
                        /\ Counted(trace[i])
                        /\ CodeReadable(TraceRecord(trace[i]))})

\* truncated at the third counted entry, of which one was dropped
C3_Witness ==
    /\ Done
    /\ entry_offset = 0
    /\ body_top = <<4>>
    /\ Len(index_file) = 2
    /\ \E i \in 1..Len(trace) : trace[i].outcome = "dropped"

\* C8 (as claimed): a file whose size or timestamp is missing or unreadable
\* gets no row.
C8_DroppedWhenMissing ==
    \A i \in 1..Len(trace) :
        ~MetadataPresent(TraceRecord(trace[i])) => trace[i].outcome # "row"

\* C8 (amended): a file whose timestamp is missing or whose size is present
\* but unreadable gets no row, a file whose size is missing is rendered as
\* 0 bytes; the drop does not fail the invocation, and every other counted
\* entry from the offset on has its row, in order.
C8_DropIsolated ==
    /\ \A i \in 1..Len(trace) :
          (Counted(trace[i]) /\ trace[i].count >= entry_offset) =>
              /\ (trace[i].outcome = "dropped")
                    <=> ~CodeReadable(TraceRecord(trace[i]))
              /\ (trace[i].outcome = "row")
                    <=> CodeReadable(TraceRecord(trace[i]))
    /\ Len(index_file) = Len(RowElements)
    /\ \A k \in 1..Len(RowElements) :
          /\ index_file[k].name = TraceRecord(RowElements[k]).rel
          /\ (~TraceRecord(RowElements[k]).is_dir
                /\ TraceRecord(RowElements[k]).Size.kind = "absent")
                => index_file[k].size_pretty = <<"0", " ", "b", "y", "t", "e", "s">>
    /\ (Done /\ result.kind = "raise") =>
          (SomeCallFailed \/ ~EntryOk(request.querystring))

\* rows before and after a dropped entry, and a row for a file without Size
C8_Witness ==
    /\ Done
    /\ result.kind = "response"
    /\ Len(trace) = 3
    /\ trace[1].outcome = "row"
    /\ trace[2].outcome = "dropped"
    /\ trace[3].outcome = "row"
    /\ TraceRecord(trace[3]).Size.kind = "absent"

(* -------------------------- chains of links ---------------------------- *)
\* every element pulled in the invocations of the chain, the current one
\* last
ChainTrace ==
    Flatten([i \in 1..Len(chain) |-> chain[i].trace] \o <<trace>>)

\* the places of the store that got a row, over the chain
ChainRows == SelectSeq(ChainTrace, IsRowElement)

\* enumeration order of two places of the store
PlaceBefore(a, b) == a.page < b.page \/ (a.page = b.page /\ a.pos < b.pos)

\* the entries of the store a listing is to show: not the marker of the
\* directory, not named index.html, metadata present and readable
Listable(rec) ==
    /\ rec.rel # <<>>
    /\ ~NamedIndexHtml(rec.rel)
    /\ MetadataPresent(rec)

FirstOffset == IF chain = <<>> THEN entry_offset ELSE chain[1].entry_offset

\* the last page of a chain that began at the first entry was returned
ChainComplete ==
    /\ Done
    /\ result.kind = "response"
    /\ body_top = <<>>
    /\ FirstOffset <= 1

\* C2: over an unchanging store a listing truncated after counted entry k
\* links to entry k + 1, the request for entry k + 1 shows rows from counted
\* entry k + 1 on, and along the chain of links every listable entry is
\* shown exactly once, in enumeration order.
C2_PaginationReplay ==
    /\ body_top # <<>> =>
          /\ body_top = <<entry_count + 1>>
          /\ trace[Len(trace)].outcome = "row"
          /\ trace[Len(trace)].count = entry_count
    /\ (chain # <<>> /\ pc # "lambda_handler") =>
          /\ entry_offset = chain[Len(chain)].entry_count + 1
          /\ \A i \in 1..Len(trace) :
                Counted(trace[i]) =>
                    /\ trace[i].count < entry_offset
                          => trace[i].outcome = "offset"
                    /\ (trace[i].count = entry_offset
                            /\ Listable(TraceRecord(trace[i])))
                          => /\ trace[i].outcome = "row"
                             /\ index_file[1].name = TraceRecord(trace[i]).rel
    /\ \A i, j \in 1..Len(ChainRows) :
          i < j => PlaceBefore(ChainRows[i], ChainRows[j])
    /\ ChainComplete =>
          \A p \in 1..Len(store) :
              \A i \in 1..StoreLen(p) :
                  Listable(StoreRecord(p, i)) =>
                      \E k \in 1..Len(ChainRows) :
                          /\ ChainRows[k].page = p
                          /\ ChainRows[k].pos = i

\* a chain of three listings over two pages of the store, each with a row
C2_Witness ==
    /\ ChainComplete
    /\ Len(chain) = 2
    /\ Len(store) = 2
    /\ index_file # <<>>
    /\ Len(ChainRows) = 3

(* ----------------------------- byte sizes ------------------------------ *)
\* the highest power of 1024 that a byte count reaches, 0 for the counts
\* below 1024
UnitPower(b) ==
    IF \A i \in 2..Places : b[i] = 0 THEN 0
    ELSE (CHOOSE i \in 2..Places :
              b[i] # 0 /\ \A j \in (i + 1)..Places : b[j] = 0) - 1

\* floor(b / 1024 ** UnitPower(b))
UnitFloor(b) == b[UnitPower(b) + 1]

UnitSuffix(power, amount) ==
    IF power = 0
    THEN (IF amount = 1 THEN <<" ", "b", "y", "t", "e">>
          ELSE <<" ", "b", "y", "t", "e", "s">>)
    ELSE <<" ", <<"K", "M", "G", "T", "P">>[power], "B">>

FloorSize(b) == StrInt(UnitFloor(b)) \o UnitSuffix(UnitPower(b), UnitFloor(b))

\* C11 (as claimed): the size shown for a file of b bytes is floor(b / u)
\* followed by the suffix of u, the largest of 1024^5 .. 1024^0 with b >= u
\* (the byte unit for 0), ` byte` for an amount of 1 and ` bytes` otherwise
\* at the byte unit.
C11_PrettySizeFloor ==
    \A k \in 1..Len(index_file) :
        (/\ k <= Len(RowElements)
         /\ ~TraceRecord(RowElements[k]).is_dir
         /\ TraceRecord(RowElements[k]).Size.kind = "int")
            => index_file[k].size_pretty =
                   FloorSize(TraceRecord(RowElements[k]).Size.val)

(* ------------------------ the order of the checks ---------------------- *)
\* C12 (as claimed): a request whose uri contains `..` is answered with the
\* request whatever its query string, a non-integer `entry` included: the
\* invocation raises nothing and issues no listing call.
C12_DotDotNeverRaises ==
    Contains(request.uri, <<".", ".">>) =>
        /\ calls = <<>>
        /\ result.kind # "raise"
        /\ Done => result = Passthrough(request)

(* ------------------------- the work of one invocation ------------------ *)
\* the elements of the trace that process_dir pulled from the generator
IsPulled(te) == te.outcome # "marker"
PulledEntries == SelectSeq(trace, IsPulled)

IsIndexElement(te) == te.outcome = "index"
IsOffsetElement(te) == te.outcome = "offset"
IsDroppedElement(te) == te.outcome = "dropped"

\* the row a record of the store has when it is rendered
RecordRowLen(rec) == RowLen(Row(RecordEntry(rec)))

Least(S) == CHOOSE m \in S : \A x \in S : m <= x

\* the size of the smallest row of the directory
SmallestRow ==
    LET S == {RecordRowLen(StoreRecord(p[1], p[2])) :
                p \in {q \in (1..Len(store)) \X (1..MaxEntries) :
                          /\ q[2] <= StoreLen(q[1])
                          /\ StoreRecord(q[1], q[2]).rel # <<>>
                          /\ CodeReadable(StoreRecord(q[1], q[2]))}}
    IN IF S = {} THEN RowFixedLen ELSE Least(S)

\* the rows that fit below the cap, and the one that passes it
CapBound(row_size) == TruncateAt \div row_size + 1

\* C13 (as claimed): whatever the size of the directory and the offset, an
\* invocation pulls no more entries from the enumerator than the rows that
\* the 1,000,000 character cap admits.
C13_PullsBoundedByCap == Len(PulledEntries) <= CapBound(SmallestRow)

\* C13 (amended): the cap bounds the rows of one invocation, not its
\* enumeration: every row but the last was written within the cap, so the
\* rows are at most those the cap admits for the smallest row written, and
\* nothing is pulled after the row that passed the cap; the entries pulled
\* are these rows and the entries skipped before the offset (up to
\* offset - 1), named index.html or dropped for their metadata.
SmallestWritten == Least({RowLen(index_file[i]) : i \in 1..Len(index_file)})

C13_CapBoundsRows ==
    /\ index_file # <<>> =>
          /\ Tell(Front(index_file)) <= TruncateAt
          /\ Len(index_file) <= CapBound(SmallestWritten)
    /\ Tell(index_file) > TruncateAt =>
          /\ pc \in {"break", "done"}
          /\ trace[Len(trace)].outcome = "row"
    /\ Len(PulledEntries) =
          Len(index_file) + Len(SelectSeq(trace, IsOffsetElement))
              + Len(SelectSeq(trace, IsIndexElement))
              + Len(SelectSeq(trace, IsDroppedElement))
    /\ Len(SelectSeq(trace, IsOffsetElement))
          <= (IF entry_offset >= 1 THEN entry_offset - 1 ELSE 0)

\* a directory whose smallest row passes the cap alone, and an invocation
\* that pulled three entries of it: two skipped for the offset, one rendered
C13_Witness ==
    /\ Done
    /\ result.kind = "response"
    /\ CapBound(SmallestRow) = 1
    /\ Len(PulledEntries) = 3
    /\ Len(index_file) = 1
    /\ body_top # <<>>

(* ------------------------------ termination ---------------------------- *)
\* the calls of the invocation that the store answered with a page
GotPage(i) == calls[i].outcome = "page"

\* no page is asked for after it was received
NoPageAgain ==
    \A i, j \in 1..Len(calls) :
        (i < j /\ GotPage(i)) => PageFor(calls[j].call) # PageFor(calls[i].call)

Completed ==
    Done => \/ result.kind = "response"
            \/ result = Passthrough(request)
            \/ result.kind = "raise"

\* the steps an invocation has left at most: a call for every page not
\* fetched yet and a step for every record not walked yet, then the return
RECURSIVE PagesWork(_)
PagesWork(p) ==
    IF p > Len(store) THEN 0 ELSE StoreLen(p) + 1 + PagesWork(p + 1)

\* the same before the directory is known: every record the store keeps
RECURSIVE KeptWork(_)
KeptWork(p) ==
    IF p > Len(store) THEN 0
    ELSE Len(store[p].dirs) + Len(store[p].files) + 1 + KeptWork(p + 1)

Remaining ==
    IF s3_result = 0 THEN PagesWork(1)
    ELSE PagesWork(s3_result + 1) + (StoreLen(s3_result) + 1 - pos)

Measure ==
    CASE pc = "done" -> 0
      [] pc \in {"break", "yielded_exception"} -> 1
      [] pc = "s3_list_dir" -> 2 + Remaining
      [] pc = "lambda_handler" -> 3 + KeptWork(1)

\* an invocation that has not returned has a step to take: the conditions
\* of the handler, of the generator and of the loop leave no case out
CanStep ==
    pc # "done" =>
        \/ /\ pc = "lambda_handler"
           /\ \/ ~EntryOk(request.querystring)
              \/ (EntryOk(request.querystring) /\ Rejected(request.uri))
              \/ (EntryOk(request.querystring) /\ ~Rejected(request.uri))
        \/ pc = "yielded_exception"
        \/ (pc = "s3_list_dir" /\ NeedsList)
        \/ (pc = "s3_list_dir" /\ s3_result > 0 /\ pos <= PageLen
               /\ (IsMarker(pos) \/ Yields))
        \/ (LoopOver /\ (entry_count = 0 \/ entry_count # 0))

\* C14: over a store of finitely many pages whose every call returns, no
\* invocation runs forever: while it has not returned it has a step to take,
\* every step brings it nearer to its return (a count of the pages and
\* records left that falls with each step), it returns a 200 response, the
\* request or a raised failure, and it never asks again for a page it has
\* received.
C14_Terminates ==
    /\ [](NoPageAgain /\ Completed /\ CanStep /\ Measure >= 0)
    /\ [][pc # "done" => Measure' < Measure]_vars

\* both pages of a listing were fetched and the invocation returned
C14_Witness ==
    /\ Done
    /\ Len(store) = 2
    /\ Len(calls) = 2
    /\ GotPage(1)
    /\ GotPage(2)
    /\ result.kind = "response"

(* ------------------------ invocations side by side --------------------- *)
\* the entries a listing of the prefix yields, page after page
PageEntries(st, prefix, p) ==
    LET page == list_objects_v2(st, prefix, p)
        NotMarker(rec) == rec.Key # prefix
        contents == SelectSeq(page.Contents, NotMarker)
    IN [i \in 1..Len(page.CommonPrefixes) |-> S3Path(TRUE, page.CommonPrefixes[i])]
       \o [i \in 1..Len(contents) |-> S3Path(FALSE, contents[i])]

Enumeration(st, prefix) ==
    Flatten([p \in 1..Len(st) |-> PageEntries(st, prefix, p)])

\* the rows, the notice and the count of a listing of these entries
RECURSIVE Rendered(_, _, _, _, _)
Rendered(entries, i, count, rows, offset) ==
    IF i > Len(entries) THEN [rows |-> rows, top |-> <<>>, count |-> count]
    ELSE IF IsIndexFile(entries[i])
         THEN Rendered(entries, i + 1, count, rows, offset)
    ELSE IF BeforeOffset(count + 1, offset) \/ MetadataFails(entries[i])
         THEN Rendered(entries, i + 1, count + 1, rows, offset)
    ELSE IF Truncates(Append(rows, Row(entries[i])))
         THEN [rows |-> Append(rows, Row(entries[i])),
               top |-> <<NextPageEntry(count + 1)>>, count |-> count + 1]
    ELSE Rendered(entries, i + 1, count + 1, Append(rows, Row(entries[i])),
                  offset)

\* what an invocation for the request returns when it runs alone over the
\* store and every call is answered
ResultAlone(st, req) ==
    IF ~EntryOk(req.querystring) THEN Raise("ValueError")
    ELSE IF Rejected(req.uri) THEN Passthrough(req)
    ELSE LET prefix == Prefix(PathStr(DirKey(unquote(req.uri))))
             r == Rendered(Enumeration(st, prefix), 1, 0, <<>>,
                           EntryOffset(req.querystring))
         IN IF r.count = 0 THEN Passthrough(req)
            ELSE Response([body_top |-> r.top, index_file |-> r.rows])

FailedCall(loc) == \E i \in 1..Len(loc.calls) : loc.calls[i].outcome = "error"

ReturnsAsAlone(loc) ==
    loc.pc = "done" =>
        loc.result = IF FailedCall(loc) THEN Raise("ListError")
                     ELSE ResultAlone(store, loc.request)

\* C15: two invocations for different requests, interleaved step by step in
\* any order over an unchanging store, each return what they return alone,
\* and the locals of the one that waits (page cursor, entry counter, output
\* buffer and the rest) change only by its being resumed as it was left.
C15_Independent ==
    /\ [](ReturnsAsAlone(Locals) /\ ReturnsAsAlone(other))
    /\ [][other' # other => (other' = Locals /\ Locals' = other)]_vars
    /\ [][store' = store]_vars

\* an invocation returned its listing while the other, for another request,
\* was in the middle of its own with rows written
C15_Witness ==
    /\ Done
    /\ result.kind = "response"
    /\ index_file # <<>>
    /\ other.pc = "s3_list_dir"
    /\ other.index_file # <<>>
    /\ other.request # request
    /\ other.entry_count # entry_count


(* ----------------------------------------------------------------------- *)
\* C16: branch_arches with ga_only=True returns group_config['arches'] for
\* every group config, a non-empty arches_override included; the override
\* is disregarded.
C16_GaOnlyGroupArches ==
    (group_config # NoGroupConfig /\ ga_only) =>
        arches = Subscript(group_config.arches)


(* ------------------------- continuation tokens ------------------------- *)
\* the page the store returned to the i-th call of the invocation
Answer(i) == list_objects_v2(store, calls[i].call.Prefix, PageFor(calls[i].call))

\* the pages of a listing from page p up to and including the first one
\* that is not truncated
RECURSIVE PagesToLast(_, _)
PagesToLast(prefix, p) ==
    LET page == list_objects_v2(store, prefix, p)
    IN IF page.IsTruncated
       THEN 1 + PagesToLast(prefix, page.NextContinuationToken)
       ELSE 1

\* the calls of the invocation are one chain over one listing
Chained ==
    \A i \in 1..Len(calls) :
        /\ calls[i].call.Bucket = BucketName
        /\ calls[i].call.Prefix = Prefix(path_top_dir)
        /\ calls[i].call.Delimiter = "/"
        /\ i = 1 => calls[i].call.ContinuationToken = 0
        /\ i > 1 => /\ GotPage(i - 1)
                    /\ Answer(i - 1).IsTruncated
                    /\ calls[i].call.ContinuationToken =
                           Answer(i - 1).NextContinuationToken

\* the enumeration was pulled to its end: every call returned a page and
\* the loop was not left at the cap
Exhausted ==
    /\ Done
    /\ calls # <<>>
    /\ GotPage(Len(calls))
    /\ body_top = <<>>

\* C17: the first listing call of an enumeration carries no continuation
\* token; every later call carries the NextContinuationToken of the page
\* before it, with the same Bucket, Prefix and Delimiter "/"; a call follows
\* a page only if the page was truncated, and an enumeration pulled to its
\* end has made as many calls as the listing has pages up to and including
\* the first that is not truncated.
C17_TokenChaining ==
    /\ Chained
    /\ Exhausted => /\ ~Answer(Len(calls)).IsTruncated
                    /\ Len(calls) = PagesToLast(Prefix(path_top_dir), 1)

\* a listing of three pages was enumerated to its end with three calls
C17_Witness ==
    /\ Exhausted
    /\ Len(calls) = 3
    /\ calls[2].call.ContinuationToken = 2
    /\ calls[3].call.ContinuationToken = 3
    /\ result.kind = "response"


(* ------------------------------- laziness ------------------------------ *)
\* the records of page p that the generator has walked
Walked(p) == {k \in 1..Len(trace) : trace[k].page = p}

\* every page before the one a call asked for was walked to its end
WalkedBeforeCall ==
    \A i \in 2..Len(calls) :
        Cardinality(Walked(PageFor(calls[i - 1].call))) =
            StoreLen(PageFor(calls[i - 1].call))

\* the generator holds the page of its last answered call and nothing of
\* the pages after it
OnePageHeld ==
    /\ s3_result = Cardinality({i \in 1..Len(calls) : GotPage(i)})
    /\ \A k \in 1..Len(trace) : trace[k].page <= s3_result

\* the loop was left at line 467
StoppedAtCap == body_top # <<>>

\* C18: page i+1 is requested only after every entry of page i was pulled,
\* and once rendering stopped at the cap no further call is issued: the
\* calls of the invocation end with the page of the row that passed the cap.
C18_Lazy ==
    /\ WalkedBeforeCall
    /\ OnePageHeld
    /\ StoppedAtCap => /\ trace[Len(trace)].outcome = "row"
                       /\ Len(calls) = trace[Len(trace)].page
                       /\ pc \in {"break", "done"}

\* rendering stopped in the first page of a longer listing: one call
C18_Witness ==
    /\ Done
    /\ StoppedAtCap
    /\ Len(store) > 1
    /\ Len(calls) = 1
    /\ result.kind = "response"


(* --------------------------- enumeration order ------------------------- *)
\* the places of the store in the order the store returns them: page after
\* page, in a page the common prefixes and then the objects
RECURSIVE StoreOrder(_)
StoreOrder(p) ==
    IF p > Len(store) THEN <<>>
    ELSE [i \in 1..StoreLen(p) |-> [page |-> p, pos |-> i]] \o StoreOrder(p + 1)

\* the generator walks the records in the order of the store
WalksInStoreOrder ==
    \A k \in 1..Len(trace) :
        /\ k <= Len(StoreOrder(1))
        /\ trace[k].page = StoreOrder(1)[k].page
        /\ trace[k].pos = StoreOrder(1)[k].pos

\* the count grows by one with each entry that is not the marker and is not
\* named index.html, in the order the entries are walked
CountsInOrder ==
    \A k \in 1..Len(trace) :
        trace[k].count = (IF k = 1 THEN 0 ELSE trace[k - 1].count)
                         + (IF trace[k].outcome \in {"marker", "index"} THEN 0 ELSE 1)

\* the rows are the rows of the rendered records, in the order walked
RowsInOrder ==
    /\ Len(index_file) = Len(RowElements)
    /\ \A j \in 1..Len(index_file) :
           index_file[j] =
               Row(RecordEntry(StoreRecord(RowElements[j].page, RowElements[j].pos)))

\* C19: s3_list_dir produces, page after page, the common prefixes of the
\* page in store order and then its objects in store order; entries are
\* counted and rendered in this order and nothing sorts them, so a folder
\* of a later page comes after the files of an earlier page.
C19_EnumerationOrder ==
    /\ WalksInStoreOrder
    /\ CountsInOrder
    /\ RowsInOrder

\* the row of a file of the first page is followed by the row of a folder
\* of the second page
C19_Witness ==
    /\ Done
    /\ result.kind = "response"
    /\ \E j \in 1..(Len(index_file) - 1) :
           /\ RowElements[j].page = 1
           /\ index_file[j].entry_type = Text_file
           /\ RowElements[j + 1].page = 2
           /\ index_file[j + 1].entry_type = Text_folder


(* ------------------------- the directory marker ------------------------ *)
\* the record the store returned at a place of a page of the listing
Returned(p, i) ==
    LET page == list_objects_v2(store, Prefix(path_top_dir), p)
    IN IF i <= Len(page.CommonPrefixes)
       THEN [is_dir |-> TRUE, key |-> page.CommonPrefixes[i].Prefix]
       ELSE [is_dir |-> FALSE,
             key |-> page.Contents[i - Len(page.CommonPrefixes)].Key]

ReturnedLen(p) ==
    LET page == list_objects_v2(store, Prefix(path_top_dir), p)
    IN Len(page.CommonPrefixes) + Len(page.Contents)

RECURSIVE ReturnedFrom(_)
ReturnedFrom(p) ==
    IF p > Len(store) THEN 0 ELSE ReturnedLen(p) + ReturnedFrom(p + 1)

\* the directory path with a single trailing separator
Normalized(dir_path) == RStrip(LStrip(dir_path, "/"), "/") \o <<"/">>

\* the listing is of the root of the bucket
RootListing == Prefix(path_top_dir) = <<>>

Withheld(te) == te.outcome = "marker"

\* C20: over all pages of an enumeration, an object is withheld if and only
\* if its key is the normalized prefix; every other object and every common
\* prefix the store returns is yielded, each once (an enumeration pulled to
\* its end has walked every record returned); the root prefix withholds
\* nothing.
C20_MarkerSuppression ==
    /\ \A k \in 1..Len(trace) :
           /\ trace[k].pos <= ReturnedLen(trace[k].page)
           /\ Withheld(trace[k]) <=>
                  /\ ~Returned(trace[k].page, trace[k].pos).is_dir
                  /\ ~RootListing
                  /\ Returned(trace[k].page, trace[k].pos).key =
                         Normalized(path_top_dir)
    /\ \A k, l \in 1..Len(trace) :
           (trace[k].page = trace[l].page /\ trace[k].pos = trace[l].pos) => k = l
    /\ Exhausted => Len(trace) = ReturnedFrom(1)
    /\ RootListing => \A k \in 1..Len(trace) : ~Withheld(trace[k])

\* the marker of a directory was withheld and the rest of its listing was
\* yielded to the end
C20_Witness ==
    /\ Exhausted
    /\ ~RootListing
    /\ Len(trace) > 2
    /\ Cardinality({k \in 1..Len(trace) : Withheld(trace[k])}) = 1
    /\ Len(calls) = 2

\* a listing of the root was yielded whole
C20_WitnessRoot ==
    /\ Exhausted
    /\ RootListing
    /\ Len(trace) > 2


(* ----------------------------- the entry count ------------------------- *)
\* the walked record was yielded and is not named index.html
IsCounted(te) ==
    LET entry == RecordEntry(StoreRecord(te.page, te.pos))
    IN /\ entry.is_dir \/ entry.absolute # Prefix(path_top_dir)
       /\ ~IsIndexFile(entry)

\* the entries among the first k walked that the counter counts
CountedUpTo(k) == Cardinality({j \in 1..k : IsCounted(trace[j])})

\* C21: the count process_dir returns is the number of entries pulled that
\* are not named index.html, those skipped by the offset and those dropped
\* for their metadata included; it starts at 0, rises by exactly one with
\* each such entry, never falls, and an entry named index.html leaves it as
\* it was.
C21_EntryCount ==
    /\ entry_count = CountedUpTo(Len(trace))
    /\ trace = <<>> => entry_count = 0
    /\ \A k \in 1..Len(trace) :
           /\ trace[k].count = CountedUpTo(k)
           /\ trace[k].outcome \in {"offset", "dropped", "row"} <=> IsCounted(trace[k])
           /\ trace[k].outcome = "index" => trace[k].count = CountedUpTo(k - 1)
    /\ (Done /\ result = Passthrough(request) /\ calls # <<>>) => entry_count = 0
    /\ (Done /\ result.kind = "response") => entry_count > 0

\* a listing of an index.html, an entry before the offset and an entry
\* without readable metadata returned a count of two
C21_Witness ==
    /\ Done
    /\ result.kind = "response"
    /\ entry_count = 2
    /\ Len(trace) = 3
    /\ \E k \in 1..3 : trace[k].outcome = "index"
    /\ \E k \in 1..3 : trace[k].outcome = "offset"
    /\ \E k \in 1..3 : trace[k].outcome = "dropped"


(* ----------------------------- the row buffer -------------------------- *)
\* the rows written before the last one were within the cap, and a returned
\* document has the notice exactly when the rows passed the cap right after
\* one of them, for a measure of the rows
RowBufferBound(RowsSize(_)) ==
    /\ index_file # <<>> => RowsSize(Front(index_file)) <= TruncateAt
    /\ (Done /\ result.kind = "response") =>
           (result.body.body_top # <<>> <=>
                \E j \in 1..Len(index_file) :
                    RowsSize(SubSeq(index_file, 1, j)) > TruncateAt)

\* the bound in the measure of line 465, index_file.tell(): characters
RowBufferChars == RowBufferBound(Tell)

\* C22: the row markup is at most 1,000,000 bytes before a row is appended,
\* so the rows of a returned document pass 1,000,000 bytes by one row at
\* most, and the document has the truncation notice if and only if the row
\* markup passed 1,000,000 bytes right after some rendered row.
C22_RowBufferBytes == RowBufferBound(TellBytes)


(* --------------------------- offsets up to one ------------------------- *)
\* the request without its query string
Plain(req) == [req EXCEPT !.querystring = <<>>]

\* the request has no `entry` value, or one that is an integer of 1 or less
LowOffset ==
    LET values == parse_qs(request.querystring, Text_entry)
    IN \/ values = <<>>
       \/ (IntOk(values[1]) /\ IntVal(values[1]) <= 1)

\* C23: for one uri over one store, a request without `entry`, with entry=0,
\* with entry=1 and with a negative entry return the same: the response of
\* the request without a query string when that is a 200 response, and
\* otherwise the request as it was received; no entry is skipped for an
\* offset of 1 or less.
C23_OffsetEquivalence ==
    LowOffset =>
        /\ \A k \in 1..Len(trace) : trace[k].outcome # "offset"
        /\ (Done /\ ~FailedCall(Locals)) =>
               LET plain == ResultAlone(store, Plain(request))
               IN IF plain.kind = "response"
                  THEN result = plain
                  ELSE result = Passthrough(request)

\* a request with entry=-1 and one with entry=1 each returned a listing
\* with rows
C23_Witness ==
    /\ Done
    /\ LowOffset
    /\ request.querystring \in {Text_entry \o <<"=", "-", "1">>,
                                Text_entry \o <<"=", "1">>}
    /\ result.kind = "response"
    /\ Len(index_file) >= 2
    /\ result = ResultAlone(store, Plain(request))

====
